---- MODULE Spec2Model ----
(***************************************************************************)
(* A model of LIEF's ELF parser front end, src/src/ELF/Parser.cpp:         *)
(*   - Parser::parse / Parser::Parser / Parser::init (class detection and  *)
(*     dispatch),                                                          *)
(*   - Parser::get_dynamic_string_table and its two strategies,            *)
(*   - Parser::parse_symbol_version and Parser::link_symbol_version.       *)
(* The stream is a sequence of bytes; typed records are decoded from it    *)
(* little-endian, as the reinterpret_casts of the source do on the hosts   *)
(* LIEF is built for.                                                      *)
(***************************************************************************)
EXTENDS Integers, Sequences, FiniteSets, TLC

VARIABLES
  stream,        \* Parser::stream_ : the bytes of the VectorStream
  binary_size_,  \* LIEF::Parser::binary_size_ (base-class field)
  type_,         \* Parser::type_
  binary_,       \* Parser::binary_ : the Binary under construction, or Null
  call,          \* the last operation called and how it ended
  input          \* what the last parse call was given / what the image was built from

vars == <<stream, binary_size_, type_, binary_, call, input>>

\* ------------------------------------------------------------------------
\* Bytes and little-endian decoding (reinterpret_cast of stream_->read(...))
\* ------------------------------------------------------------------------

\* The n-byte little-endian unsigned integer at byte offset off of bytes.
RECURSIVE LE(_, _, _)
LE(bytes, off, n) ==
  IF n = 0 THEN 0
  ELSE bytes[off + 1] + 256 * LE(bytes, off + 1, n - 1)

\* The n bytes of v, little-endian (how the inputs are laid out in a file).
RECURSIVE EncLE(_, _)
EncLE(v, n) == IF n = 0 THEN <<>> ELSE <<v % 256>> \o EncLE(v \div 256, n - 1)

RECURSIVE Flatten(_)
Flatten(ss) == IF ss = <<>> THEN <<>> ELSE Head(ss) \o Flatten(Tail(ss))

\* VectorStream::read(offset, size): the range must lie inside the buffer.
ReadInBounds(bytes, offset, size) == offset + size <= Len(bytes)

\* ------------------------------------------------------------------------
\* Parser::parse, the two constructors and Parser::init
\* ------------------------------------------------------------------------

EI_CLASS == 4
SizeofElf32_Ehdr == 52
ELFCLASSNONE == 0
ELFCLASS32 == 1
ELFCLASS64 == 2

\* The ELF magic, "\x7fELF".
ElfMagic == <<127, 69, 76, 70>>

\* is_elf(file): the magic-number check made before any Binary is allocated.
is_elf(bytes) ==
  /\ Len(bytes) >= Len(ElfMagic)
  /\ \A i \in 1..Len(ElfMagic) : bytes[i] = ElfMagic[i]

\* new Binary{} : nothing populated yet (type_ -1 stands for "not set").
NewBinary ==
  [type_ |-> -1, original_size_ |-> 0, name |-> "", built |-> FALSE,
   segments_ |-> <<>>, sections_ |-> <<>>,
   dynamic_symbols_ |-> <<>>, symbol_version_table_ |-> <<>>]

\* The ways the class-specific routine parse_binary<ELF_T> can end:
\* "none" is a normal return, the others are the exception it lets escape.
ParseBinaryOutcomes == {"none", "OutOfBounds", "corrupted"}

\* The value binary_size_ holds after the base class was default-constructed:
\* the constructor taking the bytes never assigns it, so it is zero or
\* whatever the storage held (which may happen to be a real length).
DefaultBinarySizes == {0, SizeofElf32_Ehdr, SizeofElf32_Ehdr + 1}

\* The value binary_size_ holds after LIEF::Parser{file}: the file's size.
FileBinarySize(bytes) == Len(bytes)

\* e_ident[EI_CLASS] of the Elf32_Ehdr at offset 0.
ReadClass(bytes) == LE(bytes, EI_CLASS, 1)

\* The switch of Parser::init, with ELFCLASSNONE falling through to ELF64.
ClassRoutine_NoneIs64(cls) ==
  CASE cls = ELFCLASS32 -> "ELF32"
    [] cls = ELFCLASS64 -> "ELF64"
    [] cls = ELFCLASSNONE -> "ELF64"
    [] OTHER -> "throw"

\* The switch of Parser::init: the routine run for a class, or "throw".
ClassRoutine(cls) ==
  CASE cls = ELFCLASS32 -> "ELF32"
    [] cls = ELFCLASS64 -> "ELF64"
    [] OTHER -> "throw"

\* Parser::init(name) on a parser whose stream_ holds bytes and whose
\* binary_size_ is bsize; pb is how parse_binary ends if it is run.
\* The result: the parser's binary_ and type_, the exception that escapes
\* ("none": init returned) and the routine that was run.
ParserInit(bytes, bsize, name, pb) ==
  LET b0 == [NewBinary EXCEPT !.original_size_ = bsize, !.name = name]
  IN IF ~ReadInBounds(bytes, 0, SizeofElf32_Ehdr)
       THEN [binary |-> <<b0>>, type |-> 0, exc |-> "OutOfBounds", ran |-> "none"]
       ELSE LET t  == ReadClass(bytes)
                b1 == [b0 EXCEPT !.type_ = t]
                r  == ClassRoutine(t)
            IN IF r = "throw"
                 THEN [binary |-> <<b1>>, type |-> t, exc |-> "corrupted", ran |-> "none"]
                 ELSE [binary |-> <<[b1 EXCEPT !.built = (pb = "none")]>>,
                       type |-> t, exc |-> pb, ran |-> r]

\* Parser::Parser(data, name, count_mtd)
CtorData(data, name, bsize, pb) ==
  [stream |-> data, bsize |-> bsize] @@ ParserInit(data, bsize, name, pb)

\* filesystem::path(file).filename(): the last component of the path.
Filename(path) == path[Len(path)]

\* Parser::Parser(file, count_mtd); bytes is the content of the file.
CtorFile(path, bytes, pb) ==
  IF ~is_elf(bytes)
    THEN [stream |-> <<>>, bsize |-> FileBinarySize(bytes), binary |-> <<>>,
          type |-> 0, exc |-> "bad_format", ran |-> "none"]
    ELSE [stream |-> bytes, bsize |-> FileBinarySize(bytes)]
           @@ ParserInit(bytes, FileBinarySize(bytes), Filename(path), pb)

\* Parser::parse with a handler that swallows the constructor's exception.
ParseReturn_Swallow(ctor) == ctor.binary

\* Parser::parse: `return parser.binary_;` is reached only when the
\* constructor returned; an exception leaves the caller with no pointer.
ParseReturn(ctor) == IF ctor.exc = "none" THEN ctor.binary ELSE <<>>

\* ---- the inputs of the parse specification ----

MaxExtra == 1
ClassBytes == {ELFCLASSNONE, ELFCLASS32, ELFCLASS64, 3, 255}
DataLens == {0, 3, EI_CLASS, EI_CLASS + 1}
              \cup ((SizeofElf32_Ehdr - 1)..(SizeofElf32_Ehdr + MaxExtra))
Names == {"libfoo.so"}
Paths == {<<"lib", "libfoo.so">>}

\* An image of len bytes: the magic (intact or not), the class byte, zeros.
MkImage(len, magicOk, cls) ==
  [i \in 1..len |->
     IF i <= Len(ElfMagic) THEN (IF magicOk \/ i > 1 THEN ElfMagic[i] ELSE 0)
     ELSE IF i = EI_CLASS + 1 THEN cls
     ELSE 0]

Images == {MkImage(len, m, c) : len \in DataLens, m \in BOOLEAN, c \in ClassBytes}

NoCall == [op |-> "none", exc |-> "none", ran |-> "none", ret |-> <<>>]

Init ==
  /\ stream = <<>>
  /\ binary_size_ = 0
  /\ type_ = 0
  /\ binary_ = <<>>
  /\ call = NoCall
  /\ input = [data |-> <<>>]

\* Binary* Parser::parse(const std::string& filename, count_mtd)
parse_file ==
  \E path \in Paths, bytes \in Images, pb \in ParseBinaryOutcomes :
    LET ctor == CtorFile(path, bytes, pb) IN
    /\ stream' = ctor.stream
    /\ binary_size_' = ctor.bsize
    /\ type_' = ctor.type
    /\ binary_' = ctor.binary
    /\ call' = [op |-> "parse_file", exc |-> ctor.exc, ran |-> ctor.ran,
                ret |-> ParseReturn(ctor)]
    /\ input' = [data |-> bytes]

\* Binary* Parser::parse(const std::vector<uint8_t>& data, name, count_mtd)
parse_data ==
  \E data \in Images, name \in Names, bsize \in DefaultBinarySizes,
     pb \in ParseBinaryOutcomes :
    LET ctor == CtorData(data, name, bsize, pb) IN
    /\ stream' = ctor.stream
    /\ binary_size_' = ctor.bsize
    /\ type_' = ctor.type
    /\ binary_' = ctor.binary
    /\ call' = [op |-> "parse_data", exc |-> ctor.exc, ran |-> ctor.ran,
                ret |-> ParseReturn(ctor)]
    /\ input' = [data |-> data]

Next == parse_file \/ parse_data

Spec == Init /\ [][Next]_vars

ParseOps == {"parse_file", "parse_data"}

\* Parser::init was entered with a buffer long enough for the header read.
InitReadHeader ==
  /\ call.op \in ParseOps
  /\ call.op = "parse_file" => is_elf(input.data)
  /\ Len(input.data) >= SizeofElf32_Ehdr

\* C1: whenever init read the header, the Binary's class is exactly the
\* EI_CLASS byte of the input; class 1 runs the 32-bit routine, class 2 the
\* 64-bit routine, and any other value (ELFCLASSNONE included) fails with
\* `corrupted` without running either routine.
C1_ClassDispatch ==
  InitReadHeader =>
    LET cls == input.data[EI_CLASS + 1] IN
    /\ binary_ # <<>>
    /\ binary_[1].type_ = cls
    /\ type_ = cls
    /\ (cls = 1) => call.ran = "ELF32"
    /\ (cls = 2) => call.ran = "ELF64"
    /\ (cls \notin {1, 2}) => (call.exc = "corrupted" /\ call.ran = "none")

C1_Witness ==
  /\ InitReadHeader
  /\ input.data[EI_CLASS + 1] = 0
  /\ call.exc = "corrupted"
  /\ binary_ # <<>>

\* C5: a parse call that fails at any step (bad_format, OutOfBounds,
\* corrupted, a failure of the class-specific routine) hands no Binary to
\* the caller, and a Binary that is handed over is fully built.
C5_NoPartialResult ==
  call.op \in ParseOps =>
    /\ call.exc # "none" => call.ret = <<>>
    /\ call.ret # <<>> =>
         /\ call.exc = "none"
         /\ call.ret[1].built
         /\ call.ret[1].type_ \in {ELFCLASS32, ELFCLASS64}
    /\ (call.exc = "none") = (call.ret # <<>>)

\* A Binary was allocated and half built, the routine failed, nothing returned.
C5_Witness ==
  /\ call.op \in ParseOps
  /\ call.ran # "none"
  /\ call.exc = "OutOfBounds"
  /\ binary_ # <<>>
  /\ call.ret = <<>>

\* C6 (as claimed): after a successful parse the recorded original size is
\* the byte length of the input, for both entry points.
C6_OriginalSize ==
  (call.op \in ParseOps /\ call.exc = "none") =>
    call.ret[1].original_size_ = Len(input.data)

\* ------------------------------------------------------------------------
\* Parser::parse_symbol_version and Parser::link_symbol_version
\* ------------------------------------------------------------------------
\* A SymbolVersion is allocated once and never freed or moved, so a pointer
\* to one is modelled by its (1-based) position in symbol_version_table_;
\* 0 is nullptr.

MaxSyms == 2
MaxVerBytes == 5
MaxVerOffset == 3
MaxVersions == 4

SizeofUint16 == 2

DynamicSymbol(i) == [index |-> i, symbol_version_ |-> 0]

\* The version streams: every prefix of one pattern of pairwise distinct bytes.
VerStreams == {[i \in 1..len |-> (i * 37) % 256] : len \in 0..MaxVerBytes}

\* array[i] of the uint16_t array at offset, decoded high byte first.
VersionAt_BigEndian(bytes, offset, i) ==
  256 * bytes[offset + SizeofUint16 * i + 1] + bytes[offset + SizeofUint16 * i + 2]

\* array[i] of the const uint16_t* array that starts at offset.
VersionAt(bytes, offset, i) == LE(bytes, offset + SizeofUint16 * i, SizeofUint16)

\* link_symbol_version where every symbol gets the first version.
LinkedSymbols_FirstVersion(symbols, versions) ==
  IF Len(symbols) = Len(versions)
    THEN [i \in 1..Len(symbols) |-> [symbols[i] EXCEPT !.symbol_version_ = 1]]
    ELSE symbols

\* dynamic_symbols_ after link_symbol_version.
LinkedSymbols(symbols, versions) ==
  IF Len(symbols) = Len(versions)
    THEN [i \in 1..Len(symbols) |-> [symbols[i] EXCEPT !.symbol_version_ = i]]
    ELSE symbols

InitSymVer ==
  /\ stream \in VerStreams
  /\ binary_size_ = Len(stream)
  /\ type_ = ELFCLASS64
  /\ \E n \in 0..MaxSyms :
       binary_ = <<[NewBinary EXCEPT !.type_ = ELFCLASS64, !.built = TRUE,
                      !.original_size_ = Len(stream),
                      !.dynamic_symbols_ = [i \in 1..n |-> DynamicSymbol(i)]]>>
  /\ call = NoCall
  /\ input = [data |-> stream]

\* void Parser::parse_symbol_version(uint64_t symbol_version_offset)
parse_symbol_version ==
  \E offset \in 0..MaxVerOffset :
    \* static_cast<uint32_t>(size()) changes no size the model reaches
    LET nb_entries == Len(binary_[1].dynamic_symbols_)
        table      == binary_[1].symbol_version_table_
    IN /\ Len(table) + nb_entries <= MaxVersions
       /\ IF ReadInBounds(stream, offset, nb_entries * SizeofUint16)
            THEN /\ binary_' = <<[binary_[1] EXCEPT !.symbol_version_table_ =
                       table \o [i \in 1..nb_entries |->
                                   [value_ |-> VersionAt(stream, offset, i - 1)]]]>>
                 /\ call' = [op |-> "parse_symbol_version", exc |-> "none",
                             arg |-> offset]
            ELSE /\ binary_' = binary_
                 /\ call' = [op |-> "parse_symbol_version", exc |-> "OutOfBounds",
                             arg |-> offset]
       /\ UNCHANGED <<stream, binary_size_, type_, input>>

\* void Parser::link_symbol_version(void)
link_symbol_version ==
  /\ binary_' = <<[binary_[1] EXCEPT !.dynamic_symbols_ =
                     LinkedSymbols(binary_[1].dynamic_symbols_,
                                   binary_[1].symbol_version_table_)]>>
  /\ call' = [op |-> "link_symbol_version", exc |-> "none"]
  /\ UNCHANGED <<stream, binary_size_, type_, input>>

NextSymVer == parse_symbol_version \/ link_symbol_version

SpecSymVer == InitSymVer /\ [][NextSymVer]_vars

Symbols == binary_[1].dynamic_symbols_
Versions == binary_[1].symbol_version_table_

\* C3: after link_symbol_version on an image whose dynamic symbols and
\* versions have the same length N, the version reference of symbol i is
\* the version at index i, for every i: none unlinked, none cross-linked.
C3_LinkSameIndex ==
  (call.op = "link_symbol_version" /\ Len(Symbols) = Len(Versions)) =>
    \A i \in 1..Len(Symbols) : Symbols[i].symbol_version_ = i

C3_Witness ==
  /\ call.op = "link_symbol_version"
  /\ Len(Symbols) = 2
  /\ Len(Versions) = 2
  /\ Symbols[2].symbol_version_ = 2

\* C4 (as claimed): after link_symbol_version on an image with N symbols and
\* M # N versions, no dynamic symbol has a version reference, whatever
\* parse_symbol_version and link_symbol_version calls came before.
C4_MismatchNoLink ==
  (call.op = "link_symbol_version" /\ Len(Symbols) # Len(Versions)) =>
    \A i \in 1..Len(Symbols) : Symbols[i].symbol_version_ = 0

\* C10: parse_symbol_version(offset) on an image with N dynamic symbols
\* appends exactly N versions, the i-th holding the i-th 16-bit value read
\* from offset on (low byte first), and leaves the earlier ones alone; when
\* [offset, offset + 2N) exceeds the stream it fails with OutOfBounds and the
\* version sequence is unchanged.
C10_ParseSymbolVersion ==
  [][ (call'.op = "parse_symbol_version") =>
        LET n   == Len(Symbols)
            off == call'.arg
            old == Versions
            new == binary_'[1].symbol_version_table_
        IN IF off + 2 * n <= Len(stream)
             THEN /\ call'.exc = "none"
                  /\ Len(new) = Len(old) + n
                  /\ \A i \in 1..Len(old) : new[i] = old[i]
                  /\ \A i \in 1..n :
                       new[Len(old) + i].value_ =
                         stream[off + 2 * i - 1] + 256 * stream[off + 2 * i]
             ELSE /\ call'.exc = "OutOfBounds"
                  /\ new = old ]_vars

C10_Witness ==
  /\ call.op = "parse_symbol_version"
  /\ call.exc = "none"
  /\ call.arg = 1
  /\ Len(Symbols) = 2
  /\ Len(Versions) = 4
  /\ Versions[3].value_ # Versions[4].value_

\* ------------------------------------------------------------------------
\* Parser::get_dynamic_string_table and its two strategies
\* ------------------------------------------------------------------------
\* segments_ and sections_ hold pointers: <<>> is nullptr, <<r>> points to r.

DT_STRTAB == 5
SizeofElf32_Dyn == 8
SizeofElf64_Dyn == 16

\* Binary::virtual_address_to_offset: the loadable segment whose range
\* [virtual_address, virtual_address + virtual_size) holds va gives
\* file_offset + (va - virtual_address); no such segment is a failure,
\* raised as the exception class `unmapped`.
virtual_address_to_offset(segments, va, unmapped) ==
  LET covering == {i \in 1..Len(segments) :
                     /\ segments[i] # <<>>
                     /\ segments[i][1].type = "PT_LOAD"
                     /\ segments[i][1].virtual_address <= va
                     /\ va < segments[i][1].virtual_address
                               + segments[i][1].virtual_size}
  IN IF covering = {}
       THEN [exc |-> unmapped, ret |-> 0]
       ELSE LET i == CHOOSE j \in covering : \A k \in covering : j <= k
            IN [exc |-> "none",
                ret |-> segments[i][1].file_offset
                          + (va - segments[i][1].virtual_address)]

\* std::find_if: the first of the indices that satisfy the predicate, 0 for end().
FindIf(hits) ==
  IF hits = {} THEN 0 ELSE CHOOSE i \in hits : \A k \in hits : i <= k

IsDynamicSegment(segment) ==
  segment # <<>> /\ segment[1].type = "PT_DYNAMIC"

\* A predicate that accepts every string-table section, whatever its name.
IsDynstrSection_AnyName(section) ==
  /\ section # <<>>
  /\ section[1].type = "SHT_STRTAB"

IsDynstrSection(section) ==
  /\ section # <<>>
  /\ section[1].name = ".dynstr"
  /\ section[1].type = "SHT_STRTAB"

\* sizeof(Elf32_Dyn) or sizeof(Elf64_Dyn), as the test on type_ picks it.
DynEntrySize(cls) == IF cls = ELFCLASS32 THEN SizeofElf32_Dyn ELSE SizeofElf64_Dyn

\* entries[i].d_tag and entries[i].d_un.d_val: each is half of the entry.
DynTag(bytes, offset, cls, i) ==
  LE(bytes, offset + i * DynEntrySize(cls), DynEntrySize(cls) \div 2)

DynVal(bytes, offset, cls, i) ==
  LE(bytes, offset + i * DynEntrySize(cls) + DynEntrySize(cls) \div 2,
     DynEntrySize(cls) \div 2)

\* The scan with a `break` after the first DT_STRTAB entry.
RECURSIVE ScanDynamic_FirstWins(_, _, _, _, _, _, _, _)
ScanDynamic_FirstWins(bytes, segments, unmapped, offset, cls, i, nb_entries, va_offset) ==
  IF i = nb_entries THEN [exc |-> "none", ret |-> va_offset]
  ELSE IF DynTag(bytes, offset, cls, i) = DT_STRTAB
    THEN virtual_address_to_offset(segments, DynVal(bytes, offset, cls, i), unmapped)
    ELSE ScanDynamic_FirstWins(bytes, segments, unmapped, offset, cls, i + 1,
                               nb_entries, va_offset)

\* The for loop over the dynamic entries, from entry i on with va_offset as
\* it stands: every DT_STRTAB entry overwrites va_offset with the translation
\* of its value; a failing translation leaves the loop with its exception.
RECURSIVE ScanDynamic(_, _, _, _, _, _, _, _)
ScanDynamic(bytes, segments, unmapped, offset, cls, i, nb_entries, va_offset) ==
  IF i = nb_entries THEN [exc |-> "none", ret |-> va_offset]
  ELSE IF DynTag(bytes, offset, cls, i) = DT_STRTAB
    THEN LET t == virtual_address_to_offset(segments, DynVal(bytes, offset, cls, i),
                                             unmapped)
         IN IF t.exc # "none" THEN t
            ELSE ScanDynamic(bytes, segments, unmapped, offset, cls, i + 1,
                             nb_entries, t.ret)
    ELSE ScanDynamic(bytes, segments, unmapped, offset, cls, i + 1,
                     nb_entries, va_offset)

\* uint64_t Parser::get_dynamic_string_table_from_segments(void) const
FromSegments(bytes, cls, binary, unmapped) ==
  LET it == FindIf({i \in 1..Len(binary.segments_) :
                      IsDynamicSegment(binary.segments_[i])})
  IN IF it = 0
       THEN [exc |-> "conversion_error", ret |-> 0]
       ELSE LET offset == binary.segments_[it][1].file_offset
                size   == binary.segments_[it][1].physical_size
            IN IF ~ReadInBounds(bytes, offset, size)
                 THEN [exc |-> "OutOfBounds", ret |-> 0]
                 ELSE LET r == ScanDynamic(bytes, binary.segments_, unmapped, offset,
                                           cls, 0, size \div DynEntrySize(cls), 0)
                      IN IF r.exc # "none" THEN r
                         ELSE IF r.ret > 0 THEN r
                         ELSE [exc |-> "conversion_error", ret |-> 0]

\* uint64_t Parser::get_dynamic_string_table_from_sections(void) const
FromSections(binary) ==
  LET it == FindIf({i \in 1..Len(binary.sections_) :
                      IsDynstrSection(binary.sections_[i])})
      va_offset == IF it # 0 THEN binary.sections_[it][1].file_offset ELSE 0
  IN IF va_offset > 0
       THEN [exc |-> "none", ret |-> va_offset]
       ELSE [exc |-> "conversion_error", ret |-> 0]

\* The two strategies tried in the other order.
DynamicStringTable_SectionsFirst(bytes, cls, binary, unmapped) ==
  LET r == FromSections(binary)
  IN IF r.exc = "conversion_error" THEN FromSegments(bytes, cls, binary, unmapped)
     ELSE r

\* uint64_t Parser::get_dynamic_string_table(void) const: the handler is
\* entered for a conversion_error only; anything else leaves the function.
DynamicStringTable(bytes, cls, binary, unmapped) ==
  LET r == FromSegments(bytes, cls, binary, unmapped)
  IN IF r.exc = "conversion_error" THEN FromSections(binary)
     ELSE r

\* ---- the images of the string-table specification ----

MaxDyn == 2

\* One loadable segment: file offsets 0..63 mapped at 4096..4159.
LoadSegment ==
  [type |-> "PT_LOAD", file_offset |-> 0, physical_size |-> 64,
   virtual_address |-> 4096, virtual_size |-> 64]

\* d_val values: mapped to offset 0, to 16, to 24, and just past the segment.
DynVals == {4096, 4112, 4120, 4160}

DynEntries ==
  {[d_tag |-> 1, d_val |-> 1]} \cup {[d_tag |-> DT_STRTAB, d_val |-> v] : v \in DynVals}

DynArrays == UNION {[1..n -> DynEntries] : n \in 0..MaxDyn}

\* The file bytes of a dynamic array of the given class.
EncodeDyn(cls, dyn) ==
  Flatten([i \in 1..Len(dyn) |->
             EncLE(dyn[i].d_tag, DynEntrySize(cls) \div 2)
               \o EncLE(dyn[i].d_val, DynEntrySize(cls) \div 2)])

\* The dynamic array lies at the end of the file, after 8 other bytes.
DynFileOffset == 8

DynamicSegment(size) ==
  [type |-> "PT_DYNAMIC", file_offset |-> DynFileOffset, physical_size |-> size,
   virtual_address |-> 4104, virtual_size |-> size]

\* physical_size: nothing, the array short of 4 bytes, the array, 4 bytes
\* more than the file holds.
PhysicalSizes(len) == {n \in {0, len - 4, len, len + 4} : n >= 0}

SegmentLists(len) ==
  {<<>>, <<<<LoadSegment>>>>}
    \cup UNION {{<<<<LoadSegment>>, <<DynamicSegment(n)>>>>,
                 <<<<>>, <<DynamicSegment(n)>>, <<LoadSegment>>, <<DynamicSegment(0)>>>>}
                  : n \in PhysicalSizes(len)}

Section(name, type, offset) == <<[name |-> name, type |-> type, file_offset |-> offset]>>

SectionLists ==
  {<<>>,
   <<Section(".dynstr", "SHT_STRTAB", 32)>>,
   <<Section(".dynstr", "SHT_STRTAB", 0)>>,
   <<Section(".dynstr2", "SHT_STRTAB", 32)>>,
   <<Section(".dynstr", "SHT_PROGBITS", 32), Section(".dynstr", "SHT_STRTAB", 40)>>,
   <<<<>>, Section(".dynstr", "SHT_STRTAB", 40), Section(".dynstr", "SHT_STRTAB", 32)>>,
   <<Section(".dynstr", "SHT_STRTAB", 0), Section(".dynstr", "SHT_STRTAB", 40)>>}

\* The exception class virtual_address_to_offset raises is declared outside
\* this file: it is either a class of its own or LIEF::conversion_error.
UnmappedKinds == {"UnmappedAddress", "conversion_error"}

InitStrTab ==
  /\ type_ \in {ELFCLASS32, ELFCLASS64}
  /\ \E dyn \in DynArrays, unmapped \in UnmappedKinds :
       /\ stream = [i \in 1..DynFileOffset |-> 0] \o EncodeDyn(type_, dyn)
       /\ input = [data |-> stream, dyn |-> dyn, unmapped |-> unmapped]
  /\ binary_size_ = Len(stream)
  /\ \E segments \in SegmentLists(Len(stream) - DynFileOffset),
        sections \in SectionLists :
       binary_ = <<[NewBinary EXCEPT !.type_ = type_, !.built = TRUE,
                      !.original_size_ = Len(stream),
                      !.segments_ = segments, !.sections_ = sections]>>
  /\ call = NoCall

get_dynamic_string_table_from_segments ==
  /\ call' = [op |-> "get_dynamic_string_table_from_segments"]
               @@ FromSegments(stream, type_, binary_[1], input.unmapped)
  /\ UNCHANGED <<stream, binary_size_, type_, binary_, input>>

get_dynamic_string_table_from_sections ==
  /\ call' = [op |-> "get_dynamic_string_table_from_sections"]
               @@ FromSections(binary_[1])
  /\ UNCHANGED <<stream, binary_size_, type_, binary_, input>>

get_dynamic_string_table ==
  /\ call' = [op |-> "get_dynamic_string_table"]
               @@ DynamicStringTable(stream, type_, binary_[1], input.unmapped)
  /\ UNCHANGED <<stream, binary_size_, type_, binary_, input>>

NextStrTab ==
  \/ get_dynamic_string_table_from_segments
  \/ get_dynamic_string_table_from_sections
  \/ get_dynamic_string_table

SpecStrTab == InitStrTab /\ [][NextStrTab]_vars

\* ---- what the image holds, read off the way it was built ----

Segments == binary_[1].segments_
Sections == binary_[1].sections_

DynamicSegments ==
  {i \in 1..Len(Segments) : Segments[i] # <<>> /\ Segments[i][1].type = "PT_DYNAMIC"}

HasDynamicSegment == DynamicSegments # {}

\* The first of them is the one the segment strategy reads.
TheDynamicSegment ==
  Segments[CHOOSE i \in DynamicSegments : \A k \in DynamicSegments : i <= k][1]

\* The read of the dynamic array stays inside the file.
DynReadFits ==
  TheDynamicSegment.file_offset + TheDynamicSegment.physical_size <= Len(stream)

\* The entries of the array that are scanned and tagged DT_STRTAB.
Matching ==
  {i \in 1..Len(input.dyn) :
     /\ i * (IF type_ = 1 THEN 8 ELSE 16) <= TheDynamicSegment.physical_size
     /\ input.dyn[i].d_tag = 5}

Translation(i) ==
  virtual_address_to_offset(Segments, input.dyn[i].d_val, input.unmapped)

AllMapped == \A i \in Matching : Translation(i).exc = "none"

LastMatching == CHOOSE i \in Matching : \A k \in Matching : k <= i
FirstMatching == CHOOSE i \in Matching : \A k \in Matching : i <= k

\* A dynamic segment whose array is read and whose DT_STRTAB entries
\* translate, the last of them to a non-null offset.
ValidDynamicSegment ==
  /\ HasDynamicSegment
  /\ DynReadFits
  /\ Matching # {}
  /\ AllMapped
  /\ Translation(LastMatching).ret > 0

SegmentOffset == Translation(LastMatching).ret

DynstrSections ==
  {i \in 1..Len(Sections) :
     /\ Sections[i] # <<>>
     /\ Sections[i][1].name = ".dynstr"
     /\ Sections[i][1].type = "SHT_STRTAB"}

\* The file offset of the first .dynstr string-table section.
SectionOffset ==
  Sections[CHOOSE i \in DynstrSections : \A k \in DynstrSections : i <= k][1].file_offset

ValidDynstrSection == DynstrSections # {} /\ SectionOffset > 0

\* C2: get_dynamic_string_table prefers the segment strategy: with a valid
\* dynamic segment and a valid .dynstr section at another offset it returns
\* the segment-derived offset; with no dynamic segment and a valid .dynstr
\* section, the section's offset; with neither it fails with conversion_error.
C2_SegmentsThenSections ==
  call.op = "get_dynamic_string_table" =>
    /\ (ValidDynamicSegment /\ ValidDynstrSection /\ SegmentOffset # SectionOffset)
         => (call.exc = "none" /\ call.ret = SegmentOffset)
    /\ (~HasDynamicSegment /\ ValidDynstrSection)
         => (call.exc = "none" /\ call.ret = SectionOffset)
    /\ (~HasDynamicSegment /\ ~ValidDynstrSection)
         => call.exc = "conversion_error"

C2_Witness ==
  /\ call.op = "get_dynamic_string_table"
  /\ ValidDynamicSegment
  /\ ValidDynstrSection
  /\ SegmentOffset # SectionOffset
  /\ call.ret = SegmentOffset

\* C7 (as claimed): when the segment strategy fails because a DT_STRTAB
\* address is covered by no segment or because the read of the dynamic array
\* exceeds the buffer, get_dynamic_string_table goes on to the section
\* strategy and returns the offset of a valid .dynstr section.
C7_LowLevelFailureFallsBack ==
  ( /\ call.op = "get_dynamic_string_table"
    /\ HasDynamicSegment
    /\ ValidDynstrSection
    /\ \/ ~DynReadFits
       \/ DynReadFits /\ ~AllMapped )
    => (call.exc = "none" /\ call.ret = SectionOffset)

\* C8 (as claimed): with several DT_STRTAB entries the segment strategy
\* returns the translation of the last one, whatever the earlier ones hold.
C8_LastEntryWins ==
  ( /\ call.op = "get_dynamic_string_table_from_segments"
    /\ HasDynamicSegment
    /\ DynReadFits
    /\ Cardinality(Matching) >= 2
    /\ Translation(LastMatching).exc = "none"
    /\ Translation(LastMatching).ret > 0 )
    => (call.exc = "none" /\ call.ret = Translation(LastMatching).ret)

\* C8 (amended): with several DT_STRTAB entries, all of them holding mapped
\* addresses, the segment strategy is decided by the last one: its non-null
\* translation is returned, its null translation is a conversion_error; a
\* DT_STRTAB entry holding an unmapped address ends the strategy with the
\* translation's failure. The same for the 32-bit and the 64-bit layout.
C8_LastMappedEntryWins ==
  ( /\ call.op = "get_dynamic_string_table_from_segments"
    /\ HasDynamicSegment
    /\ DynReadFits
    /\ Cardinality(Matching) >= 2 )
    => IF AllMapped
         THEN IF SegmentOffset > 0
                THEN call.exc = "none" /\ call.ret = SegmentOffset
                ELSE call.exc = "conversion_error"
         ELSE call.exc = input.unmapped

C8_Witness ==
  /\ call.op = "get_dynamic_string_table_from_segments"
  /\ type_ = ELFCLASS64
  /\ HasDynamicSegment
  /\ DynReadFits
  /\ Cardinality(Matching) >= 2
  /\ AllMapped
  /\ Translation(FirstMatching).ret > 0
  /\ Translation(FirstMatching).ret # SegmentOffset
  /\ call.exc = "none"
  /\ call.ret = SegmentOffset

\* C9 (as claimed): the section strategy returns the file offset of the
\* .dynstr string-table section whenever one exists, whatever that offset,
\* and fails with conversion_error only when none exists.
C9_SectionOffsetReturned ==
  call.op = "get_dynamic_string_table_from_sections" =>
    IF DynstrSections # {}
      THEN call.exc = "none" /\ call.ret = SectionOffset
      ELSE call.exc = "conversion_error"

\* C9 (amended): the section strategy returns the file offset of the first
\* section named exactly .dynstr with type string table when that offset is
\* not 0, and fails with conversion_error when there is no such section or
\* when that offset is 0.
C9_NonNullSectionOffsetReturned ==
  call.op = "get_dynamic_string_table_from_sections" =>
    IF DynstrSections # {} /\ SectionOffset > 0
      THEN call.exc = "none" /\ call.ret = SectionOffset
      ELSE call.exc = "conversion_error"

C9_Witness ==
  /\ call.op = "get_dynamic_string_table_from_sections"
  /\ Cardinality(DynstrSections) = 2
  /\ Sections[1] = <<>>
  /\ call.exc = "none"
  /\ call.ret = 40

====
